---- MODULE Spec2Model ----
(***************************************************************************)
(* Model of server.py: the two Flask handlers rectification_login and      *)
(* rectification_submit, each a sequence of local steps and Supabase calls *)
(* on the table "rectification_requests".  Every request runs in its own   *)
(* handling context; contexts interleave at the store calls.               *)
(***************************************************************************)
EXTENDS Integers, Sequences, FiniteSets, TLC

\* Number of HTTP requests a behaviour contains (each runs one handler once).
MaxReqs == 3

Reqs == 1..MaxReqs

(***************************************************************************)
(* Strings that the handlers trim are sequences of characters; the other   *)
(* JSON values are opaque.                                                 *)
(***************************************************************************)
SP == " "
EMPTY == << >>

\* SQL NULL / Python None in a column or a JSON value.
NULL == "NULL"

\* server.py:55, the default of body.get("message", ...)
DEFAULT_MESSAGE == "Rectification submitted successfully."
\* server.py:54, the default of body.get("final_data", {})
EMPTY_DICT == "{}"
\* server.py:35, the fallback of row.get("message") or ...
ALREADY_SUBMITTED == "Already submitted."

\* str.strip(): drop leading, then trailing, whitespace.
RECURSIVE lstrip(_)
lstrip(s) == IF s # EMPTY /\ Head(s) = SP THEN lstrip(Tail(s)) ELSE s

RECURSIVE rstrip(_)
rstrip(s) ==
    IF s # EMPTY /\ s[Len(s)] = SP THEN rstrip(SubSeq(s, 1, Len(s) - 1)) ELSE s

strip(s) == rstrip(lstrip(s))

\* dict.get(key, default) on a JSON body, a function from its keys.
get(body, key, default) == IF key \in DOMAIN body THEN body[key] ELSE default

\* Python truthiness of a str or None held in a column.
truthy(v) == v # NULL /\ v # ""

\* v or default
or_else(v, default) == IF truthy(v) THEN v ELSE default

\* The personal id left out of the check.
verify_without_dni(boleta, codigo, dni) == boleta # EMPTY /\ codigo # EMPTY

verify_boleta_with_your_system(boleta, codigo, dni) ==
    boleta # EMPTY /\ codigo # EMPTY /\ dni # EMPTY

(***************************************************************************)
(* The request bodies the clients send.                                    *)
(***************************************************************************)
A == <<"a">>
B == <<"b">>

\* The ticket a is exercised with every payload, the ticket b with one.
RawBoletas == {A, <<SP, "a">>}
OtherRawBoleta == <<"b", SP>>

\* (codigo, dni) as typed by a client; two full pairs and the incomplete ones.
RawCreds ==
    { <<<<"x">>, <<"x", SP>>>>, <<<<SP, "y">>, <<"y">>>>,
      <<<<"x">>, EMPTY>>, <<<<SP>>, <<"y">>>> }

LoginBodies ==
    { [boleta |-> b, codigo |-> c[1], dni |-> c[2]] : b \in RawBoletas, c \in RawCreds }
    \cup { [boleta |-> OtherRawBoleta, codigo |-> <<"x">>, dni |-> <<"x">>],
           [codigo |-> <<"x">>, dni |-> <<"x">>],
           [boleta |-> <<SP, SP>>, codigo |-> <<"x">>, dni |-> <<"x">>] }

\* (final_data, message) pairs; a missing key is left out of the body.
SubmitBodies ==
    { [boleta |-> b, final_data |-> "fd1", message |-> "m1"] : b \in RawBoletas }
    \cup { [boleta |-> b, final_data |-> "fd2"] : b \in RawBoletas }
    \cup { [boleta |-> b, message |-> ""] : b \in RawBoletas }
    \cup { [boleta |-> OtherRawBoleta, final_data |-> "fd1", message |-> "m1"] }

(***************************************************************************)
(* The table and the requests.                                             *)
(***************************************************************************)
VARIABLES
    table,       \* rows of rectification_requests, in insertion order
    pc,          \* where each request's handler stands
    op,          \* which endpoint the request was posted to
    boleta,      \* handler locals (server.py:20-22, 53-55)
    codigo,
    dni,
    final_data,
    message,
    row,         \* res.data[0] if res.data else None, as a list of 0 or 1 rows
    calls,       \* the store calls the handler has issued so far
    resp         \* the HTTP response, once the handler has returned

vars == <<table, pc, op, boleta, codigo, dni, final_data, message, row, calls, resp>>

NoResp == [code |-> 0, body |-> << >>]

\* The table outlives the server process: a run starts on an empty table or on
\* one that earlier requests left behind (a login of a; a login and a submit of a).
InitTables ==
    { << >>,
      << [boleta |-> A, codigo |-> <<"x">>, dni |-> <<"x">>, status |-> "PENDING",
          message |-> NULL, final_data |-> NULL] >>,
      << [boleta |-> A, codigo |-> <<"x">>, dni |-> <<"x">>, status |-> "DONE",
          message |-> "m1", final_data |-> "fd1"] >> }

Init ==
    /\ table \in InitTables
    /\ pc = [p \in Reqs |-> "new"]
    /\ op = [p \in Reqs |-> "none"]
    /\ boleta = [p \in Reqs |-> EMPTY]
    /\ codigo = [p \in Reqs |-> EMPTY]
    /\ dni = [p \in Reqs |-> EMPTY]
    /\ final_data = [p \in Reqs |-> NULL]
    /\ message = [p \in Reqs |-> NULL]
    /\ row = [p \in Reqs |-> << >>]
    /\ calls = [p \in Reqs |-> << >>]
    /\ resp = [p \in Reqs |-> NoResp]

\* The select without its .eq("boleta", b) filter.
select_unfiltered(tbl, b, columns) ==
    [i \in DOMAIN tbl |-> [c \in columns |-> tbl[i][c]]]

\* .select(columns).eq("boleta", b).execute().data
select_eq(tbl, b, columns) ==
    LET hits == SelectSeq(tbl, LAMBDA r : r.boleta = b)
    IN  [i \in DOMAIN hits |-> [c \in columns |-> hits[i][c]]]

\* row = res.data[0] if res.data else None
first_row(data) == IF data # << >> THEN <<Head(data)>> ELSE << >>

\* The comparison misspelt: no row is ever found DONE.
is_done_misspelt(r) == r # << >> /\ r[1].status = "Done"

\* The status left out of the test: any existing row counts as DONE.
is_done_if_any_row(r) == r # << >>

\* if row and row.get("status") == "DONE"
is_done(r) == r # << >> /\ r[1].status = "DONE"

\* A plain insert in place of the upsert.
upsert_as_insert(tbl, values) ==
    Append(tbl, [boleta |-> values.boleta, codigo |-> values.codigo,
                 dni |-> values.dni, status |-> values.status,
                 message |-> NULL, final_data |-> NULL])

\* The upsert with the dni column left out of the values written on conflict.
upsert_without_dni(tbl, values) ==
    IF \E i \in DOMAIN tbl : tbl[i].boleta = values.boleta
    THEN [i \in DOMAIN tbl |->
            IF tbl[i].boleta = values.boleta
            THEN [tbl[i] EXCEPT !.codigo = values.codigo, !.status = values.status]
            ELSE tbl[i]]
    ELSE Append(tbl, [boleta |-> values.boleta, codigo |-> values.codigo,
                      dni |-> values.dni, status |-> values.status,
                      message |-> NULL, final_data |-> NULL])

\* The upsert replacing the whole row on conflict: the columns it does not
\* supply fall back to NULL.
upsert_replaces_row(tbl, values) ==
    LET fresh == [boleta |-> values.boleta, codigo |-> values.codigo,
                  dni |-> values.dni, status |-> values.status,
                  message |-> NULL, final_data |-> NULL]
    IN  IF \E i \in DOMAIN tbl : tbl[i].boleta = values.boleta
        THEN [i \in DOMAIN tbl |->
                IF tbl[i].boleta = values.boleta THEN fresh ELSE tbl[i]]
        ELSE Append(tbl, fresh)

\* .upsert(values, on_conflict="boleta"): INSERT ... ON CONFLICT (boleta) DO
\* UPDATE SET the supplied columns; one atomic statement.
upsert(tbl, values) ==
    IF \E i \in DOMAIN tbl : tbl[i].boleta = values.boleta
    THEN [i \in DOMAIN tbl |->
            IF tbl[i].boleta = values.boleta
            THEN [tbl[i] EXCEPT !.codigo = values.codigo, !.dni = values.dni,
                                !.status = values.status]
            ELSE tbl[i]]
    ELSE Append(tbl, [boleta |-> values.boleta, codigo |-> values.codigo,
                      dni |-> values.dni, status |-> values.status,
                      message |-> NULL, final_data |-> NULL])

\* The update with its .eq("boleta", b) filter lost and the boleta written
\* along with the other columns: every row is rewritten.
update_every_row(tbl, values, b) ==
    [i \in DOMAIN tbl |->
        [tbl[i] EXCEPT !.boleta = b, !.final_data = values.final_data,
                       !.message = values.message, !.status = values.status]]

\* The update turned into an upsert: a row is created when none matches.
update_or_create(tbl, values, b) ==
    IF \E i \in DOMAIN tbl : tbl[i].boleta = b
    THEN [i \in DOMAIN tbl |->
            IF tbl[i].boleta = b
            THEN [tbl[i] EXCEPT !.final_data = values.final_data,
                                !.message = values.message,
                                !.status = values.status]
            ELSE tbl[i]]
    ELSE Append(tbl, [boleta |-> b, codigo |-> EMPTY, dni |-> EMPTY,
                      status |-> values.status, message |-> values.message,
                      final_data |-> values.final_data])

\* The update with the message column left out of the values written.
update_without_message(tbl, values, b) ==
    [i \in DOMAIN tbl |->
        IF tbl[i].boleta = b
        THEN [tbl[i] EXCEPT !.final_data = values.final_data,
                            !.status = values.status]
        ELSE tbl[i]]

\* .update(values).eq("boleta", b): UPDATE ... WHERE boleta = b; touches the
\* matching rows only, none if there is none.
update_eq(tbl, values, b) ==
    [i \in DOMAIN tbl |->
        IF tbl[i].boleta = b
        THEN [tbl[i] EXCEPT !.final_data = values.final_data,
                            !.message = values.message, !.status = values.status]
        ELSE tbl[i]]

\* Requests are numbered in order of arrival.
arrives(p) == pc[p] = "new" /\ \A q \in Reqs : q < p => pc[q] # "new"

\* A handler returns r: its response goes out and the request payload it held
\* in locals is gone; the request stays identified by endpoint and boleta.
returns(p, r) ==
    /\ pc' = [pc EXCEPT ![p] = "done"]
    /\ resp' = [resp EXCEPT ![p] = r]
    /\ codigo' = [codigo EXCEPT ![p] = EMPTY]
    /\ dni' = [dni EXCEPT ![p] = EMPTY]
    /\ final_data' = [final_data EXCEPT ![p] = NULL]
    /\ message' = [message EXCEPT ![p] = NULL]

\* The failure caught and answered as if the call had gone through.
raises_swallowed(p, call) ==
    /\ calls' = [calls EXCEPT ![p] = Append(@, <<call, "raised">>)]
    /\ returns(p, [code |-> 200, body |-> [ok |-> TRUE, status |-> "DONE"]])

\* .execute() raised (the store rejected the call or was unreachable): no
\* handler catches it, so Flask answers 500.  A rejected statement changes no row.
raises(p, call) ==
    /\ calls' = [calls EXCEPT ![p] = Append(@, <<call, "raised">>)]
    /\ returns(p, [code |-> 500, body |-> << >>])

\* server.py:18-37: parse, verify, read the row, refuse if DONE.  executed
\* tells whether the select's execute() came back.
rectification_login(p, body, executed) ==
    /\ arrives(p)
    /\ op' = [op EXCEPT ![p] = "login"]
    /\ boleta' = [boleta EXCEPT ![p] = strip(get(body, "boleta", EMPTY))]
    /\ LET c == strip(get(body, "codigo", EMPTY))
           d == strip(get(body, "dni", EMPTY))
           r == first_row(select_eq(table, boleta'[p],
                                    {"status", "message", "final_data"}))
       IN  IF ~verify_boleta_with_your_system(boleta'[p], c, d)
           THEN /\ returns(p, [code |-> 401,
                               body |-> [allowed |-> FALSE,
                                         error |-> "Invalid boleta/codigo/dni"]])
                /\ UNCHANGED <<row, calls>>
           ELSE IF ~executed
           THEN raises(p, "select") /\ UNCHANGED row
           ELSE /\ calls' = [calls EXCEPT ![p] = Append(@, <<"select", "ok">>)]
                /\ row' = [row EXCEPT ![p] = r]
                /\ IF is_done(r)
                   THEN returns(p, [code |-> 403,
                                    body |-> [allowed |-> FALSE, status |-> "DONE",
                                              message |-> or_else(r[1].message,
                                                                  ALREADY_SUBMITTED),
                                              details |-> r[1].final_data]])
                   ELSE /\ pc' = [pc EXCEPT ![p] = "login_upsert"]
                        /\ codigo' = [codigo EXCEPT ![p] = c]
                        /\ dni' = [dni EXCEPT ![p] = d]
                        /\ UNCHANGED <<final_data, message, resp>>
    /\ UNCHANGED table

\* The upsert held back while an earlier request on the same boleta is
\* between its store calls (a per-ticket lock inside the handler).
login_upsert_locked(p) ==
    /\ pc[p] = "login_upsert"
    /\ \A q \in Reqs :
          q < p => ~(pc[q] \in {"login_upsert", "submit_update"}
                     /\ boleta[q] = boleta[p])
    /\ calls' = [calls EXCEPT ![p] = Append(@, <<"upsert", "ok">>)]
    /\ table' = upsert(table,
                       [boleta |-> boleta[p], codigo |-> codigo[p], dni |-> dni[p],
                        status |-> IF row[p] = << >> THEN "PENDING"
                                   ELSE or_else(row[p][1].status, "PENDING")])
    /\ returns(p, [code |-> 200, body |-> [allowed |-> TRUE, status |-> "PENDING"]])
    /\ UNCHANGED <<op, boleta, row>>

\* server.py:40-47
login_upsert(p) ==
    /\ pc[p] = "login_upsert"
    /\ calls' = [calls EXCEPT ![p] = Append(@, <<"upsert", "ok">>)]
    /\ table' = upsert(table,
                       [boleta |-> boleta[p], codigo |-> codigo[p], dni |-> dni[p],
                        status |-> IF row[p] = << >> THEN "PENDING"
                                   ELSE or_else(row[p][1].status, "PENDING")])
    /\ returns(p, [code |-> 200, body |-> [allowed |-> TRUE, status |-> "PENDING"]])
    /\ UNCHANGED <<op, boleta, row>>

\* server.py:51-61: parse, read the row's status, refuse if DONE.
rectification_submit(p, body, executed) ==
    /\ arrives(p)
    /\ op' = [op EXCEPT ![p] = "submit"]
    /\ boleta' = [boleta EXCEPT ![p] = strip(get(body, "boleta", EMPTY))]
    /\ LET r == first_row(select_eq(table, boleta'[p], {"status"}))
       IN  IF ~executed
           THEN raises(p, "select") /\ UNCHANGED row
           ELSE /\ calls' = [calls EXCEPT ![p] = Append(@, <<"select", "ok">>)]
                /\ row' = [row EXCEPT ![p] = r]
                /\ IF is_done(r)
                   THEN returns(p, [code |-> 409,
                                    body |-> [ok |-> FALSE,
                                              error |-> "Already submitted"]])
                   ELSE /\ pc' = [pc EXCEPT ![p] = "submit_update"]
                        /\ final_data' = [final_data EXCEPT ![p] =
                                            get(body, "final_data", EMPTY_DICT)]
                        /\ message' = [message EXCEPT ![p] =
                                            get(body, "message", DEFAULT_MESSAGE)]
                        /\ UNCHANGED <<codigo, dni, resp>>
    /\ UNCHANGED table

\* server.py:63-69
submit_update(p) ==
    /\ pc[p] = "submit_update"
    /\ calls' = [calls EXCEPT ![p] = Append(@, <<"update", "ok">>)]
    /\ table' = update_eq(table,
                          [final_data |-> final_data[p], message |-> message[p],
                           status |-> "DONE"],
                          boleta[p])
    /\ returns(p, [code |-> 200, body |-> [ok |-> TRUE, status |-> "DONE"]])
    /\ UNCHANGED <<op, boleta, row>>

\* The upsert's or the update's execute() raises (server.py:45, 67).
execute_raises(p) ==
    /\ pc[p] \in {"login_upsert", "submit_update"}
    /\ raises(p, IF pc[p] = "login_upsert" THEN "upsert" ELSE "update")
    /\ UNCHANGED <<table, op, boleta, row>>

Next ==
    \/ \E p \in Reqs, body \in LoginBodies, executed \in BOOLEAN :
          rectification_login(p, body, executed)
    \/ \E p \in Reqs : login_upsert(p)
    \/ \E p \in Reqs, body \in SubmitBodies, executed \in BOOLEAN :
          rectification_submit(p, body, executed)
    \/ \E p \in Reqs : submit_update(p)
    \/ \E p \in Reqs : execute_raises(p)

Spec == Init /\ [][Next]_vars

\* Every handler that waits for a store call is resumed: the store answers
\* each call (with a result or with an error) and Flask runs the handler on.
FairSpec ==
    /\ Spec
    /\ \A p \in Reqs :
          WF_vars(login_upsert(p) \/ submit_update(p) \/ execute_raises(p))

\* The same handlers with the requests served one after the other: a request
\* is taken up only when no other is between its store calls.
alone(p) == \A q \in Reqs \ {p} : pc[q] \in {"new", "done"}

SeqNext ==
    \/ \E p \in Reqs, body \in LoginBodies, executed \in BOOLEAN :
          alone(p) /\ rectification_login(p, body, executed)
    \/ \E p \in Reqs : login_upsert(p)
    \/ \E p \in Reqs, body \in SubmitBodies, executed \in BOOLEAN :
          alone(p) /\ rectification_submit(p, body, executed)
    \/ \E p \in Reqs : submit_update(p)
    \/ \E p \in Reqs : execute_raises(p)

SpecSeq == Init /\ [][SeqNext]_vars

(***************************************************************************)
(* Vocabulary of the properties.                                           *)
(***************************************************************************)
Tickets == {A, B}

\* The stored records of ticket t.
records(tbl, t) == SelectSeq(tbl, LAMBDA r : r.boleta = t)

has_status(tbl, t, st) == \E i \in DOMAIN tbl : tbl[i].boleta = t /\ tbl[i].status = st

Allowed(r) == r.code = 200 /\ "allowed" \in DOMAIN r.body
Completed(r) == r.code = 200 /\ "ok" \in DOMAIN r.body
Unauthorized(r) == r.code = 401
Forbidden(r) == r.code = 403
Conflict(r) == r.code = 409
StoreError(r) == r.code = 500

\* The handler of p read a record of its ticket and found it PENDING.
read_pending(p) == row[p] # << >> /\ row[p][1].status = "PENDING"

\* Empty after trimming surrounding whitespace: nothing but whitespace.
blank(s) == \A i \in DOMAIN s : s[i] = SP

\* A field of the login body is missing or blank.
incomplete(body) ==
    \E k \in {"boleta", "codigo", "dni"} : k \notin DOMAIN body \/ blank(body[k])

\* The handler of p took a step.
stepped(p) == pc'[p] # pc[p]

\* The store call p issued in this step raised.
call_raised(p) ==
    /\ calls'[p] # calls[p]
    /\ calls'[p][Len(calls'[p])][2] = "raised"

finished(p, endpoint) == pc[p] = "done" /\ op[p] = endpoint

\* The (codigo, dni) pairs and the (final_data, message) pairs that the
\* clients supply, as the handlers take them from the bodies.
SuppliedCredentials ==
    { <<strip(body.codigo), strip(body.dni)>> :
        body \in {b \in LoginBodies : ~incomplete(b)} }

SuppliedPayloads ==
    { <<get(body, "final_data", EMPTY_DICT), get(body, "message", DEFAULT_MESSAGE)>> :
        body \in SubmitBodies }

\* The ticket ids that have a record.
ticket_ids(tbl) == {tbl[i].boleta : i \in DOMAIN tbl}

(***************************************************************************)
(* C1. Status is monotonic under every interleaving: once the record of a  *)
(* ticket is DONE, no step makes it PENDING.                               *)
(***************************************************************************)
C1_StatusMonotonic ==
    [][\A t \in Tickets :
          has_status(table, t, "DONE") => ~has_status(table', t, "PENDING")]_vars

(***************************************************************************)
(* C2. Sequential write-once (requests served one after the other): a      *)
(* submit that read a PENDING record and whose update executed returns     *)
(* Completed and stores its payload; a DONE record is never changed        *)
(* afterwards; and every submit that finds the record DONE returns         *)
(* Conflict.                                                               *)
(***************************************************************************)
C2_SequentialWriteOnce ==
    [][\A p \in Reqs :
          /\ (submit_update(p) /\ read_pending(p)) =>
                /\ Completed(resp'[p])
                /\ \E i \in DOMAIN table' :
                      /\ table'[i].boleta = boleta[p]
                      /\ table'[i].status = "DONE"
                      /\ table'[i].final_data = final_data[p]
                      /\ table'[i].message = message[p]
          /\ \A i \in DOMAIN table :
                table[i].status = "DONE" => table'[i] = table[i]
          /\ (/\ pc[p] = "new" /\ op'[p] = "submit"
              /\ has_status(table, boleta'[p], "DONE")
              /\ ~StoreError(resp'[p])) =>
                Conflict(resp'[p]) /\ pc'[p] = "done"]_vars

\* A submit completed a PENDING record and a later submit of the ticket was refused.
C2_Witness ==
    \E p, q \in Reqs :
        /\ p < q /\ finished(p, "submit") /\ finished(q, "submit")
        /\ boleta[p] = boleta[q]
        /\ read_pending(p) /\ Completed(resp[p])
        /\ Conflict(resp[q])
        /\ has_status(table, boleta[p], "DONE")

(***************************************************************************)
(* C3. Two submits of one ticket that both read its record as PENDING end  *)
(* with one Completed and one Conflict, never with two Completed.          *)
(***************************************************************************)
C3_OneCompletedOneConflict ==
    \A p, q \in Reqs :
        (/\ p # q /\ finished(p, "submit") /\ finished(q, "submit")
         /\ boleta[p] = boleta[q]
         /\ read_pending(p) /\ read_pending(q)
         /\ ~StoreError(resp[p]) /\ ~StoreError(resp[q]))
        => \/ Completed(resp[p]) /\ Conflict(resp[q])
           \/ Conflict(resp[p]) /\ Completed(resp[q])

(***************************************************************************)
(* C4. In every reachable state a record carries final_data if and only if *)
(* its status is DONE, and carries a message only if its status is DONE.   *)
(***************************************************************************)
C4_FinalDataIffDone ==
    \A i \in DOMAIN table :
        /\ (table[i].final_data # NULL) <=> (table[i].status = "DONE")
        /\ (table[i].message # NULL) => (table[i].status = "DONE")

(***************************************************************************)
(* C5. No state holds two records of one ticket, and a login with valid    *)
(* credentials that read no record returns Allowed/PENDING and leaves      *)
(* exactly one record of its ticket, with status PENDING, however many     *)
(* such logins run concurrently.                                           *)
(***************************************************************************)
C5_ConcurrentLoginsOneRecord ==
    /\ [](\A t \in Tickets : Len(records(table, t)) <= 1)
    /\ [][\A p \in Reqs :
             (login_upsert(p) /\ row[p] = << >>) =>
                /\ Allowed(resp'[p]) /\ resp'[p].body.status = "PENDING"
                /\ Len(records(table', boleta[p])) = 1
                /\ records(table', boleta[p])[1].status = "PENDING"]_vars

\* Two logins of one ticket both read no record, both were allowed, one record.
C5_Witness ==
    \E p, q \in Reqs :
        /\ p # q /\ finished(p, "login") /\ finished(q, "login")
        /\ boleta[p] = boleta[q]
        /\ row[p] = << >> /\ row[q] = << >>
        /\ Allowed(resp[p]) /\ Allowed(resp[q])
        /\ Len(records(table, boleta[p])) = 1
        /\ records(table, boleta[p])[1].status = "PENDING"


C7_EmptyFieldUnauthorized ==
    [][\A p \in Reqs, body \in LoginBodies, executed \in BOOLEAN :
          (rectification_login(p, body, executed) /\ incomplete(body))
          => /\ Unauthorized(resp'[p])
             /\ pc'[p] = "done"
             /\ calls'[p] = << >>
             /\ row'[p] = << >>
             /\ table' = table]_vars

\* A login was turned away as Unauthorized.
C7_Witness ==
    \E p \in Reqs :
        /\ finished(p, "login") /\ Unauthorized(resp[p])
        /\ calls[p] = << >>

(***************************************************************************)
(* C8. A submit served alone whose record is absent or PENDING returns     *)
(* Completed and leaves a record of its ticket with status DONE and the    *)
(* payload and message it supplied.                                        *)
(***************************************************************************)
C8_SubmitAloneStores ==
    [][\A p \in Reqs :
          submit_update(p)
          => /\ Completed(resp'[p])
             /\ \E i \in DOMAIN table' :
                   /\ table'[i].boleta = boleta[p]
                   /\ table'[i].status = "DONE"
                   /\ table'[i].final_data = final_data[p]
                   /\ table'[i].message = message[p]]_vars

(***************************************************************************)
(* C9. A request one of whose store calls raised never answers Allowed or  *)
(* Completed: it answers with the server error, which is none of           *)
(* Unauthorized, Forbidden and Conflict, and the step in which the call    *)
(* raised leaves the table as it was.                                      *)
(***************************************************************************)
C9_StoreFailureSurfaces ==
    /\ [](\A p \in Reqs :
            (\E i \in DOMAIN calls[p] : calls[p][i][2] = "raised")
            => /\ pc[p] = "done"
               /\ StoreError(resp[p])
               /\ ~Allowed(resp[p]) /\ ~Completed(resp[p])
               /\ ~Unauthorized(resp[p]) /\ ~Forbidden(resp[p])
               /\ ~Conflict(resp[p]))
    /\ [][\A p \in Reqs : call_raised(p) => table' = table]_vars

\* A select, an upsert and an update have each raised.
C9_Witness ==
    /\ \E p \in Reqs : finished(p, "login") /\ calls[p] = << <<"select", "raised">> >>
    /\ \E p \in Reqs :
          finished(p, "login") /\ calls[p] = << <<"select", "ok">>, <<"upsert", "raised">> >>
    /\ \E p \in Reqs :
          finished(p, "submit") /\ calls[p] = << <<"select", "ok">>, <<"update", "raised">> >>

(***************************************************************************)
(* C10. Requests on different tickets are independent: a step of a request *)
(* on ticket t leaves the records of every other ticket unchanged, and the *)
(* row it reads, on which its result rests, is the one it would read from  *)
(* the records of t alone.                                                 *)
(***************************************************************************)
C10_TicketsIndependent ==
    [][\A p \in Reqs :
          stepped(p) =>
            /\ \A u \in Tickets \ {boleta'[p]} :
                  records(table', u) = records(table, u)
            /\ (row'[p] # row[p] /\ op'[p] = "login") =>
                  row'[p] = first_row(select_eq(records(table, boleta'[p]), boleta'[p],
                                                {"status", "message", "final_data"}))
            /\ (row'[p] # row[p] /\ op'[p] = "submit") =>
                  row'[p] = first_row(select_eq(records(table, boleta'[p]), boleta'[p],
                                                {"status"}))]_vars

\* Both tickets have a record, written by different requests, and a request
\* on a has completed a record while b has one.
C10_Witness ==
    \E p, q \in Reqs :
        /\ finished(p, "submit") /\ boleta[p] = A /\ Completed(resp[p])
        /\ finished(q, "login") /\ boleta[q] = B /\ Allowed(resp[q])
        /\ has_status(table, A, "DONE")
        /\ has_status(table, B, "PENDING")

(***************************************************************************)
(* C11. A login with valid credentials that read a PENDING record returns  *)
(* Allowed/PENDING and its upsert leaves exactly one record of the ticket, *)
(* with the supplied access code and personal id and with status PENDING.  *)
(***************************************************************************)
C11_LoginRefreshesPending ==
    [][\A p \in Reqs :
          (login_upsert(p) /\ read_pending(p))
          => /\ Allowed(resp'[p]) /\ resp'[p].body.status = "PENDING"
             /\ Len(records(table', boleta[p])) = 1
             /\ records(table', boleta[p])[1].codigo = codigo[p]
             /\ records(table', boleta[p])[1].dni = dni[p]
             /\ records(table', boleta[p])[1].status = "PENDING"]_vars

\* Two logins of a PENDING ticket were both allowed; the one record now
\* carries credentials other than those it started with.
C11_Witness ==
    \E p, q \in Reqs :
        /\ p < q /\ finished(p, "login") /\ finished(q, "login")
        /\ boleta[p] = A /\ boleta[q] = A
        /\ read_pending(p) /\ read_pending(q)
        /\ Allowed(resp[p]) /\ Allowed(resp[q])
        /\ Len(records(table, A)) = 1
        /\ records(table, A)[1].codigo = <<"y">>
        /\ records(table, A)[1].dni = <<"y">>
        /\ records(table, A)[1].status = "PENDING"

(***************************************************************************)
(* C12. Requests are safe to retry when served one after the other: once a *)
(* login has run its upsert, running the same login again (reading the     *)
(* record it left, then the same upsert) would leave the table as it is;   *)
(* and a submit that arrives after an earlier submit of its ticket already *)
(* wrote over a PENDING record re-reads the status, returns Conflict and   *)
(* writes nothing.                                                         *)
(***************************************************************************)
C12_SafeToRetry ==
    [][\A p \in Reqs :
          /\ login_upsert(p) =>
                LET again == first_row(select_eq(table', boleta[p],
                                                 {"status", "message", "final_data"}))
                IN  /\ again # << >>
                    /\ ~is_done(again)
                    /\ upsert(table',
                              [boleta |-> boleta[p], codigo |-> codigo[p],
                               dni |-> dni[p],
                               status |-> or_else(again[1].status, "PENDING")])
                       = table'
          /\ \A body \in SubmitBodies :
                (/\ rectification_submit(p, body, TRUE)
                 /\ \E q \in Reqs :
                       /\ finished(q, "submit") /\ boleta[q] = boleta'[p]
                       /\ read_pending(q)
                       /\ calls[q] = << <<"select", "ok">>, <<"update", "ok">> >>)
                => /\ Conflict(resp'[p])
                   /\ pc'[p] = "done"
                   /\ calls'[p] = << <<"select", "ok">> >>
                   /\ table' = table]_vars

\* The login that had left the record (a, x, x, PENDING) ran again and left it
\* as it was; then a submit completed it and a second submit was refused.
C12_Witness ==
    \E p, q, r \in Reqs :
        /\ p < q /\ q < r
        /\ finished(p, "login") /\ read_pending(p) /\ Allowed(resp[p])
        /\ finished(q, "submit") /\ read_pending(q) /\ Completed(resp[q])
        /\ finished(r, "submit") /\ Conflict(resp[r])
        /\ boleta[p] = A /\ boleta[q] = A /\ boleta[r] = A
        /\ records(table, A)[1].codigo = <<"x">>
        /\ records(table, A)[1].dni = <<"x">>
        /\ records(table, A)[1].status = "DONE"

(***************************************************************************)
(* C13. At-most-once completion: of all the submits of one ticket at most  *)
(* one ever returns Completed, and no step turns the status of a record to *)
(* DONE once a submit of that ticket has returned Completed.               *)
(***************************************************************************)
C13_AtMostOneCompleted ==
    [][\A p \in Reqs :
          /\ (stepped(p) /\ op'[p] = "submit" /\ Completed(resp'[p]))
             => ~\E q \in Reqs \ {p} :
                    finished(q, "submit") /\ boleta[q] = boleta[p]
                    /\ Completed(resp[q])
          /\ \A t \in Tickets :
                (~has_status(table, t, "DONE") /\ has_status(table', t, "DONE"))
                => ~\E q \in Reqs :
                       finished(q, "submit") /\ boleta[q] = t
                       /\ Completed(resp[q])]_vars

(***************************************************************************)
(* C14. A login answered Forbidden carries exactly the message and the     *)
(* final_data stored in the record, whatever message the completing submit *)
(* stored (a supplied one, an empty one, the default).                     *)
(***************************************************************************)
C14_ForbiddenCarriesStored ==
    [][\A p \in Reqs :
          (stepped(p) /\ op'[p] = "login" /\ Forbidden(resp'[p]))
          => /\ resp'[p].body.message = records(table, boleta'[p])[1].message
             /\ resp'[p].body.details = records(table, boleta'[p])[1].final_data]_vars

(***************************************************************************)
(* C15. No request waits on another: a handler that has read its row can   *)
(* always issue its write, whatever the other requests are doing; every    *)
(* request issues at most one read and then at most one write; and,        *)
(* provided the store answers every call, the requests that have started   *)
(* all return a response: from some point on none is left between its      *)
(* store calls.                                                            *)
(***************************************************************************)
C15_NoWaiting ==
    /\ [](\A p \in Reqs :
            /\ pc[p] = "login_upsert" => ENABLED login_upsert(p)
            /\ pc[p] = "submit_update" => ENABLED submit_update(p)
            /\ Len(calls[p]) <= 2
            /\ \A i \in DOMAIN calls[p] :
                  calls[p][i][1] = (IF i = 1 THEN "select"
                                    ELSE IF op[p] = "login" THEN "upsert" ELSE "update")
            /\ pc[p] = "done" => resp[p] # NoResp)
    /\ <>[](\A p \in Reqs : pc[p] \notin {"login_upsert", "submit_update"})

\* A login and a submit of one ticket ran interleaved (the login wrote the
\* status it had read before the submit's update) and both have returned,
\* each after one read and one write.
C15_Witness ==
    \E p, q \in Reqs :
        /\ finished(p, "login") /\ Allowed(resp[p])
        /\ finished(q, "submit") /\ Completed(resp[q])
        /\ boleta[p] = A /\ boleta[q] = A
        /\ calls[p] = << <<"select", "ok">>, <<"upsert", "ok">> >>
        /\ calls[q] = << <<"select", "ok">>, <<"update", "ok">> >>
        /\ records(table, A)[1].status = "PENDING"
        /\ records(table, A)[1].final_data # NULL

(***************************************************************************)
(* C16. Records are never deleted and keep their ticket id: every step     *)
(* leaves each stored row in place with the boleta it had, so a ticket     *)
(* that has a record has one in every later state.                         *)
(***************************************************************************)
C16_RecordsStay ==
    [][/\ \A i \in DOMAIN table :
             i \in DOMAIN table' /\ table'[i].boleta = table[i].boleta
       /\ \A t \in Tickets :
             records(table, t) # << >> => records(table', t) # << >>]_vars

\* Both tickets have a record, a was completed, and all requests are over.
C16_Witness ==
    /\ Len(table) = 2
    /\ has_status(table, A, "DONE")
    /\ records(table, B) # << >>
    /\ \A p \in Reqs : pc[p] = "done"
    /\ \E p \in Reqs : finished(p, "submit") /\ Completed(resp[p]) /\ boleta[p] = A

(***************************************************************************)
(* C17. No step of a submit changes the set of ticket ids that have a      *)
(* record; the set grows only in the upsert of a login, by that login's    *)
(* ticket id, and that login carried three non-empty fields.               *)
(***************************************************************************)
C17_OnlyLoginCreates ==
    [][\A p \in Reqs :
          stepped(p) =>
            /\ op'[p] = "submit" => ticket_ids(table') = ticket_ids(table)
            /\ ticket_ids(table') # ticket_ids(table) =>
                  /\ op[p] = "login" /\ pc[p] = "login_upsert"
                  /\ Allowed(resp'[p])
                  /\ ticket_ids(table') = ticket_ids(table) \cup {boleta[p]}
                  /\ Len(boleta[p]) > 0 /\ Len(codigo[p]) > 0 /\ Len(dni[p]) > 0]_vars

\* Two submits of the ticket b, never logged in, were answered Completed and
\* b still has no record.
C17_Witness ==
    \E p, q \in Reqs :
        /\ p # q /\ finished(p, "submit") /\ finished(q, "submit")
        /\ boleta[p] = B /\ boleta[q] = B
        /\ Completed(resp[p]) /\ Completed(resp[q])
        /\ B \notin ticket_ids(table)
        /\ \A r \in Reqs : op[r] # "login"

(***************************************************************************)
(* C18. Each handler writes only its own columns, under any interleaving:  *)
(* no step of a login changes the final_data or the message of a stored    *)
(* row, and no step of a submit changes its codigo or its dni.             *)
(***************************************************************************)
C18_OwnColumnsOnly ==
    [][\A p \in Reqs :
          stepped(p) =>
            \A i \in DOMAIN table :
               /\ i \in DOMAIN table'
               /\ op'[p] = "login" =>
                     /\ table'[i].final_data = table[i].final_data
                     /\ table'[i].message = table[i].message
               /\ op'[p] = "submit" =>
                     /\ table'[i].codigo = table[i].codigo
                     /\ table'[i].dni = table[i].dni]_vars

\* A login rewrote the credentials of a record that a submit had already
\* filled: the record carries the new credentials and the submitted payload.
C18_Witness ==
    \E p, q \in Reqs :
        /\ finished(p, "login") /\ Allowed(resp[p]) /\ read_pending(p)
        /\ finished(q, "submit") /\ Completed(resp[q]) /\ read_pending(q)
        /\ boleta[p] = A /\ boleta[q] = A
        /\ records(table, A)[1].codigo = <<"y">>
        /\ records(table, A)[1].dni = <<"y">>
        /\ records(table, A)[1].final_data = "fd1"
        /\ records(table, A)[1].message = "m1"

(***************************************************************************)
(* C19. No torn writes: the (codigo, dni) of every stored row is a pair    *)
(* one login supplied and the (final_data, message) of every DONE row is a *)
(* pair one submit supplied; a step that changes either column of a pair   *)
(* is one upsert, or one update of a submit answered Completed, that sets  *)
(* both columns to the values of that one request.                         *)
(***************************************************************************)
C19_NoTornWrites ==
    /\ [](\A i \in DOMAIN table :
            /\ <<table[i].codigo, table[i].dni>> \in SuppliedCredentials
            /\ table[i].status = "DONE" =>
                  <<table[i].final_data, table[i].message>> \in SuppliedPayloads)
    /\ [][\A i \in DOMAIN table' :
             /\ (i \notin DOMAIN table
                 \/ <<table'[i].codigo, table'[i].dni>>
                       # <<table[i].codigo, table[i].dni>>)
                => \E p \in Reqs :
                      /\ login_upsert(p) /\ table'[i].boleta = boleta[p]
                      /\ <<table'[i].codigo, table'[i].dni>> = <<codigo[p], dni[p]>>
             /\ (i \in DOMAIN table
                 /\ <<table'[i].final_data, table'[i].message>>
                       # <<table[i].final_data, table[i].message>>)
                => \E p \in Reqs :
                      /\ submit_update(p) /\ table'[i].boleta = boleta[p]
                      /\ Completed(resp'[p])
                      /\ <<table'[i].final_data, table'[i].message>>
                            = <<final_data[p], message[p]>>]_vars

\* Two submits of a raced (both read PENDING, both wrote) while a login
\* refreshed the credentials; the record holds whole pairs.
C19_Witness ==
    \E p, q, r \in Reqs :
        /\ p # q
        /\ finished(p, "submit") /\ Completed(resp[p]) /\ read_pending(p)
        /\ finished(q, "submit") /\ Completed(resp[q]) /\ read_pending(q)
        /\ finished(r, "login") /\ Allowed(resp[r])
        /\ boleta[p] = A /\ boleta[q] = A /\ boleta[r] = A
        /\ <<records(table, A)[1].codigo, records(table, A)[1].dni>> = << <<"y">>, <<"y">> >>
        /\ <<records(table, A)[1].final_data, records(table, A)[1].message>>
              \in SuppliedPayloads

(***************************************************************************)
(* C20. The outcome of a submit is decided by the stored status of its     *)
(* ticket at its read alone: Conflict, with nothing written, if the record *)
(* is DONE, and otherwise the update and Completed, whatever credentials   *)
(* are stored; the handler holds no credentials and never verifies.        *)
(***************************************************************************)
C20_SubmitDecidedByStatus ==
    [][\A p \in Reqs :
          /\ \A body \in SubmitBodies :
                rectification_submit(p, body, TRUE) =>
                   /\ codigo'[p] = EMPTY /\ dni'[p] = EMPTY
                   /\ IF has_status(table, boleta'[p], "DONE")
                      THEN Conflict(resp'[p]) /\ pc'[p] = "done" /\ table' = table
                      ELSE resp'[p] = NoResp /\ pc'[p] = "submit_update"
          /\ submit_update(p) => Completed(resp'[p])]_vars

\* With the credentials (y, y) stored by a login, one submit of the ticket
\* was answered Completed and the next one Conflict.
C20_Witness ==
    \E p, q, r \in Reqs :
        /\ finished(r, "login") /\ Allowed(resp[r]) /\ boleta[r] = A
        /\ finished(p, "submit") /\ Completed(resp[p]) /\ boleta[p] = A
        /\ finished(q, "submit") /\ Conflict(resp[q]) /\ boleta[q] = A
        /\ records(table, A)[1].codigo = <<"y">>
        /\ records(table, A)[1].status = "DONE"

====
